---- MODULE Spec2Model ----
(***************************************************************************)
(* Model of git-churn's gitfuncs/metrics packages (src/gitfuncs/gitfuncs.go) *)
(*                                                                         *)
(* Four state machines share this module:                                  *)
(*   SpecRev     RevList and GetDistinctAuthorsEMailIds over a commit DAG   *)
(*   SpecDel     DeletedLineNumbers / DeletedLineNumbersWhitespaceExcluded  *)
(*   SpecMetrics CalculateDiffMetricsWithWhitespace / ...WhitespaceExcluded *)
(*   SpecAggr    AggrDiffMetricsWithWhitespace and its goroutines           *)
(* Each specification leaves the variables of the others at their idle     *)
(* values.                                                                 *)
(***************************************************************************)
EXTENDS Integers, Sequences, FiniteSets, TLC

VARIABLES
    \* ---- repository object store read by RevList ----
    parents,      \* commit -> set of parent commits
    missing,      \* commits whose object is absent from the storer
    when,         \* commit -> Committer.When.Unix()
    \* ---- RevList / GetDistinctAuthorsEMailIds ----
    beginCommit, endCommit,
    revPc,        \* "idle" | "revlisted" | "loop" | "returned"
    commits,      \* RevList's result slice
    revErr,       \* RevList's error (TRUE = non-nil)
    treeRead,     \* commit -> "unread" | "unreadable" | "nofile" | "hasfile"
    emailRead,    \* commit -> "unread" | the commit's Author.Email
    loopIdx,      \* position of the range loop in commits
    authors,      \* the authors slice
    authErr,      \* GetDistinctAuthorsEMailIds' returned error
    \* ---- DeletedLineNumbers / DeletedLineNumbersWhitespaceExcluded ----
    delMode,      \* "incl" | "excl": which of the two functions runs
    delPc,        \* "loop" | "done" | "panic"
    patchChunks,  \* the chunks of the file patch read so far
    lineCounter,  \* lineCounter
    deletedLines, \* deletedLines
    counterTrace, \* lineCounter after each chunk read (history)
    recorded,     \* the line numbers each chunk appended (history)
    fileDeletedLinesMap,  \* the map entry stored for the file
    \* ---- the commit read by CalculateDiffMetrics* ----
    patchFile,    \* path of the changed file
    fromPresent,  \* the parent tree has the changed file
    toPresent,    \* the commit's tree has the changed file
    otherState,   \* the second file: "absent" | "unchanged" | "added"
    mChunks,      \* chunks of the changed file's patch
    \* ---- CalculateDiffMetricsWithWhitespace / ...WhitespaceExcluded ----
    mPc,          \* "diff" | "with" | "done" | "panic"
    queryPath,    \* the filePath argument
    mWith,        \* *FileDiffMetrics of CalculateDiffMetricsWithWhitespace
    mWithErr,     \* whether that call reported an error
    mExcl,        \* *FileDiffMetrics of CalculateDiffMetricsWhitespaceExcluded
    mExclErr,     \* whether that call returned an error
    \* ---- AggrDiffMetricsWithWhitespace and its goroutines ----
    aggrParentTree, \* path -> [present, lines] in the parent's tree
    aggrTree,     \* the same for the commit's tree
    diffStats,    \* patch.Stats(): a sequence of [Addition, Deletion]
    mainPc,       \* where AggrDiffMetricsWithWhitespace stands
    gPc,          \* goroutine -> "off" | "run" | "send" | "done"
    gVal,         \* goroutine -> the value it sends: (loc, files) or a count
    delivered,    \* goroutine -> number of its sends received (history)
    beforeFiles, afterFiles,
    diffMetrics   \* the *AggrDiffMetrics being filled

revVars == <<parents, missing, when, beginCommit, endCommit, revPc, commits,
             revErr, treeRead, emailRead, loopIdx, authors, authErr>>

delVars == <<delMode, delPc, patchChunks, lineCounter, deletedLines, counterTrace,
             recorded, fileDeletedLinesMap>>

metVars == <<patchFile, fromPresent, toPresent, otherState, mChunks, mPc, queryPath,
             mWith, mWithErr, mExcl, mExclErr>>

aggrVars == <<aggrParentTree, aggrTree, diffStats, mainPc, gPc, gVal, delivered,
              beforeFiles, afterFiles, diffMetrics>>

vars == <<revVars, delVars, metVars, aggrVars>>

otherThanRev == <<delVars, metVars, aggrVars>>
otherThanDel == <<revVars, metVars, aggrVars>>
otherThanMet == <<revVars, delVars, aggrVars>>
otherThanAggr == <<revVars, delVars, metVars>>

\* the values a component's variables keep while another component runs
RevIdle ==
    /\ parents = <<>> /\ missing = {} /\ when = <<>>
    /\ beginCommit = 0 /\ endCommit = 0 /\ revPc = "off" /\ commits = <<>>
    /\ revErr = FALSE /\ treeRead = <<>> /\ emailRead = <<>> /\ loopIdx = 0
    /\ authors = <<>> /\ authErr = FALSE

DelIdle ==
    /\ delMode = "off" /\ delPc = "off" /\ patchChunks = <<>> /\ lineCounter = 0
    /\ deletedLines = <<>> /\ counterTrace = <<>> /\ recorded = <<>>
    /\ fileDeletedLinesMap = <<>>

MetIdle ==
    /\ patchFile = <<>> /\ fromPresent = FALSE /\ toPresent = FALSE
    /\ otherState = "off" /\ mChunks = <<>> /\ mPc = "off" /\ queryPath = <<>>
    /\ mWith = <<>> /\ mWithErr = FALSE /\ mExcl = <<>> /\ mExclErr = FALSE

AggrIdle ==
    /\ aggrParentTree = <<>> /\ aggrTree = <<>> /\ diffStats = <<>> /\ mainPc = "off"
    /\ gPc = <<>> /\ gVal = <<>> /\ delivered = <<>> /\ beforeFiles = <<>>
    /\ afterFiles = <<>> /\ diffMetrics = <<>>

\* ------------------------------------------------------------------ bounds
NumCommits == 3
\* a file patch has at most MaxChunks chunks holding at most MaxPatchLines lines
MaxChunks == 3
MaxPatchLines == 3
\* the two trees of AggrDiffMetricsWithWhitespace hold files out of NumFiles paths
NumFiles == 2

\* ------------------------------------------------------------- generic helpers
Range(s) == {s[i] : i \in DOMAIN s}

NoDuplicates(s) == \A i, j \in DOMAIN s : i # j => s[i] # s[j]

\* every enumeration of the finite set S as a sequence
Enumerations(S) ==
    {s \in [1..Cardinality(S) -> S] : \A i, j \in 1..Cardinality(S) : i # j => s[i] # s[j]}

\* =========================================================================
\*  Commit graph, RevList, GetDistinctAuthorsEMailIds
\* =========================================================================
Commit == 1..NumCommits
Whens == {1, 2}
Emails == {"ann@x", "bob@x"}

CommitHash(c) == [kind |-> "commit", id |-> c]
TreeHash(c) == [kind |-> "tree", id |-> c]

RECURSIVE Reach(_)
\* commits reachable from c over parent edges (c included)
Reach(c) == {c} \cup UNION {Reach(p) : p \in parents[c]}

\* revlist.Objects(storer, objs, ignore) of go-git: the hashes of every object
\* reachable from objs that is not reachable from an ignored hash; it fails
\* when the walk meets an object the storer lacks.
IgnoredCommits(ignore) ==
    UNION {Reach(h.id) : h \in {x \in ignore : x.kind = "commit"}}

Walked(objs, ignore) ==
    (UNION {Reach(c) : c \in objs}) \ IgnoredCommits(ignore)

ObjectsErr(objs, ignore) == Walked(objs, ignore) \cap missing # {}

Objects(objs, ignore) ==
    ({CommitHash(c) : c \in Walked(objs, ignore)}
        \cup {TreeHash(c) : c \in Walked(objs, ignore)})
    \ (ignore \cup {TreeHash(c) : c \in IgnoredCommits(ignore)})

\* r.CommitObject(h) succeeds exactly on the hash of a stored commit
CommitObjectOk(h) == h.kind = "commit" /\ h.id \notin missing

\* lines 365-371: keep the hashes that CommitObject resolves
ResolvedCommits(hist) == {h.id : h \in {x \in hist : CommitObjectOk(x)}}

\* line 373: sorted by committer time, most recent first (sort.Slice is not
\* stable and ref2hist comes out of a map, so ties come in any order)
SortedByWhenDesc(s) == \A i, j \in DOMAIN s : i < j => when[s[i]] >= when[s[j]]

\* RevList's outcome for (b, e): the set of commits it returns, before ordering
RevListSet(b, e) == ResolvedCommits(Objects({b}, Objects({e}, {})))

RevListErr(b, e) ==
    \/ ObjectsErr({e}, {})
    \/ ObjectsErr({b}, Objects({e}, {}))

InitRevStore ==
    /\ parents \in {f \in [Commit -> SUBSET Commit] : \A c \in Commit : f[c] \subseteq 1..(c - 1)}
    /\ missing \in {{}} \cup {{c} : c \in Commit}
    /\ when \in [Commit -> Whens]

InitRevCall ==
    /\ InitRevStore
    /\ beginCommit = 0
    /\ endCommit = 0
    /\ revPc = "idle"
    /\ commits = <<>>
    /\ revErr = FALSE
    /\ treeRead = [c \in Commit |-> "unread"]
    /\ emailRead = [c \in Commit |-> "unread"]
    /\ loopIdx = 0
    /\ authors = <<>>
    /\ authErr = FALSE

\* RevList(r, beginCommit, endCommit), lines 352-377 (also line 381)
RevListCall(b, e) ==
    /\ revPc = "idle"
    /\ beginCommit' = b
    /\ endCommit' = e
    /\ revPc' = "revlisted"
    /\ IF RevListErr(b, e)
       THEN /\ revErr' = TRUE
            /\ commits' = <<>>
       ELSE /\ revErr' = FALSE
            /\ \E s \in Enumerations(RevListSet(b, e)) :
                  /\ SortedByWhenDesc(s)
                  /\ commits' = s
    /\ UNCHANGED <<parents, missing, when, treeRead, emailRead, loopIdx, authors, authErr>>
    /\ UNCHANGED otherThanRev

\* lines 382-384: RevList's error is returned as it is
AuthorsRevListFailed ==
    /\ revPc = "revlisted"
    /\ revErr
    /\ revPc' = "returned"
    /\ authors' = <<>>
    /\ authErr' = TRUE
    /\ UNCHANGED <<parents, missing, when, beginCommit, endCommit, commits, revErr,
                   treeRead, emailRead, loopIdx>>
    /\ UNCHANGED otherThanRev

\* line 386: the loop starts
AuthorsLoopStart ==
    /\ revPc = "revlisted"
    /\ ~revErr
    /\ revPc' = "loop"
    /\ loopIdx' = 1
    /\ authors' = <<>>
    /\ UNCHANGED <<parents, missing, when, beginCommit, endCommit, commits, revErr,
                   treeRead, emailRead, authErr>>
    /\ UNCHANGED otherThanRev

\* lines 387-397, one iteration: what commit.Tree(), tree.File(filePath) and
\* commit.Author.Email yield is read from the store here
AuthorsAppend_NoSkip(ts, em) == Append(authors, em)

AuthorsAppend(ts, em) == IF ts = "hasfile" THEN Append(authors, em) ELSE authors

AuthorsLoopStep(ts, em) ==
    /\ revPc = "loop"
    /\ loopIdx <= Len(commits)
    /\ treeRead' = [treeRead EXCEPT ![commits[loopIdx]] = ts]
    /\ emailRead' = [emailRead EXCEPT ![commits[loopIdx]] = em]
    /\ IF ts = "unreadable"
       THEN /\ revPc' = "returned"
            /\ authors' = <<>>
            /\ authErr' = TRUE
            /\ UNCHANGED loopIdx
       ELSE /\ authors' = AuthorsAppend(ts, em)
            /\ loopIdx' = loopIdx + 1
            /\ UNCHANGED <<revPc, authErr>>
    /\ UNCHANGED <<parents, missing, when, beginCommit, endCommit, commits, revErr>>
    /\ UNCHANGED otherThanRev

RECURSIVE UniqueElements(_)
\* helper.UniqueElements: drops repeated elements, keeping the first of each
UniqueElements(s) ==
    IF s = <<>> THEN <<>>
    ELSE LET init == UniqueElements(SubSeq(s, 1, Len(s) - 1))
             last == s[Len(s)]
         IN IF last \in Range(init) THEN init ELSE Append(init, last)

\* lines 398-399: authors are deduplicated; the err returned is RevList's
AuthorsReturn ==
    /\ revPc = "loop"
    /\ loopIdx > Len(commits)
    /\ revPc' = "returned"
    /\ authors' = UniqueElements(authors)
    /\ authErr' = revErr
    /\ UNCHANGED <<parents, missing, when, beginCommit, endCommit, commits, revErr,
                   treeRead, emailRead, loopIdx>>
    /\ UNCHANGED otherThanRev

TreeStates == {"unreadable", "nofile", "hasfile"}

NextRev ==
    \/ \E b, e \in Commit : RevListCall(b, e)
    \/ AuthorsRevListFailed
    \/ AuthorsLoopStart
    \/ \E ts \in TreeStates, em \in Emails : AuthorsLoopStep(ts, em)
    \/ AuthorsReturn

InitRev == InitRevCall /\ DelIdle /\ MetIdle /\ AggrIdle

SpecRev == InitRev /\ [][NextRev]_vars

\* ---- C1 ----
\* C1: whenever RevList succeeds, the commits it returns are exactly those
\* reachable from endCommit and not reachable from beginCommit; so the result
\* is empty for (A,A) and is {B} when B is a direct child of A.
C1_TwoDotRange ==
    (revPc # "idle" /\ ~revErr) =>
        Range(commits) = Reach(endCommit) \ Reach(beginCommit)

\* ---- C7 ----
\* C7: when RevList succeeded and every tree read was readable, the call
\* returns a nil error and a duplicate-free list holding exactly the author
\* emails of the returned commits whose tree contains the file.
C7_DistinctAuthors ==
    (revPc = "returned" /\ ~revErr /\ \A c \in Range(commits) : treeRead[c] # "unreadable") =>
        /\ ~authErr
        /\ NoDuplicates(authors)
        /\ Range(authors) = {emailRead[c] : c \in {d \in Range(commits) : treeRead[d] = "hasfile"}}

\* a range of two commits by different authors, of which only one has the file
C7_Witness ==
    /\ revPc = "returned"
    /\ ~revErr
    /\ Len(commits) = 2
    /\ \E c, d \in Range(commits) :
          /\ treeRead[c] = "hasfile"
          /\ treeRead[d] = "nofile"
          /\ emailRead[d] # emailRead[c]
          /\ authors = <<emailRead[c]>>

\* =========================================================================
\*  Text: strings are sequences of one-character strings
\* =========================================================================
NL == "\n"
WhiteSpace == {" ", "\t", "\r", NL}

\* the line texts files and chunks are made of
LineTexts == {<<>>, <<" ">>, <<"x">>}

\* strings.HasPrefix
HasPrefix(s, prefix) ==
    Len(s) >= Len(prefix) /\ SubSeq(s, 1, Len(prefix)) = prefix

\* where sep occurs in s
OccursAt(s, sep, i) ==
    i + Len(sep) - 1 <= Len(s) /\ SubSeq(s, i, i + Len(sep) - 1) = sep

\* the first occurrence of sep in s at or after from, 0 when there is none
NextOccurrence(s, sep, from) ==
    IF \E i \in from..Len(s) : OccursAt(s, sep, i)
    THEN CHOOSE i \in from..Len(s) :
            OccursAt(s, sep, i) /\ \A j \in from..(i - 1) : ~OccursAt(s, sep, j)
    ELSE 0

RECURSIVE SplitFrom(_, _, _)
SplitFrom(s, sep, from) ==
    LET m == NextOccurrence(s, sep, from)
    IN IF m = 0 THEN <<SubSeq(s, from, Len(s))>>
       ELSE <<SubSeq(s, from, m - 1)>> \o SplitFrom(s, sep, m + Len(sep))

\* strings.Split(s, sep) for a non-empty sep: the segments between the
\* occurrences of sep, found left to right without overlap
SplitOn(s, sep) == SplitFrom(s, sep, 1)

\* strings.Split(s, "\n")
Split(s) == SplitOn(s, <<NL>>)

RECURSIVE TrimLeft(_)
TrimLeft(s) ==
    IF s # <<>> /\ Head(s) \in WhiteSpace THEN TrimLeft(Tail(s)) ELSE s

RECURSIVE TrimRight(_)
TrimRight(s) ==
    IF s # <<>> /\ s[Len(s)] \in WhiteSpace THEN TrimRight(SubSeq(s, 1, Len(s) - 1)) ELSE s

\* strings.TrimSpace
TrimSpace(s) == TrimRight(TrimLeft(s))

RECURSIVE Concat(_)
\* the concatenation of a sequence of strings
Concat(ss) == IF ss = <<>> THEN <<>> ELSE Head(ss) \o Concat(Tail(ss))

\* object.File.Lines() of go-git: split on newline, a final empty segment dropped
FileLines(content) ==
    LET splits == Split(content)
    IN IF splits[Len(splits)] = <<>> THEN SubSeq(splits, 1, Len(splits) - 1) ELSE splits

\* FileLOCFromTree, lines 127-137, for a file of the given content (0 when the
\* tree has no such file)
FileLOCFromTree(present, content) == IF present THEN Len(FileLines(content)) ELSE 0

\* the text of the given lines, each ended by a newline, the last one only if endsNL
TextOf(lines, endsNL) ==
    Concat([i \in DOMAIN lines |->
              IF i < Len(lines) \/ endsNL THEN lines[i] \o <<NL>> ELSE lines[i]])

\* every text of at most n lines over the line texts T (the empty text included)
Texts(T, n) ==
    {<<>>} \cup
    UNION {{TextOf(ls, nl) : ls \in [1..k -> T], nl \in BOOLEAN} : k \in 1..n}

\* =========================================================================
\*  DeletedLineNumbers, DeletedLineNumbersWhitespaceExcluded
\* =========================================================================
Equal == 0
Add == 1
Delete == 2
ChunkTypes == {Equal, Add, Delete}

EndsWithNewline(content) == content[Len(content)] = NL

\* lines 262-266, 271-275, 313-317: the chunk's line count, for content that is
\* not empty (the index Content()[len-1] is out of range on empty content)
ChunkLineCount_NoTrailingCase(content) == Len(Split(content))

ChunkLineCount(content) ==
    IF EndsWithNewline(content) THEN Len(Split(content)) - 1 ELSE Len(Split(content))

\* the chunks on which Content()[len(Content())-1] is evaluated
IndexesLastByte(chunk) == chunk.type \in {Equal, Delete}

\* lines 276-279: every line of the Delete chunk is recorded
DeletedInChunk(content, counter) ==
    [i \in 1..ChunkLineCount(content) |-> counter + i]

RECURSIVE NonEmptyFrom(_, _, _, _)
\* lines 318-322: the lines of the Delete chunk whose text is not ""
NonEmptyFrom(deletedPatch, patchLen, counter, i) ==
    IF i > patchLen THEN <<>>
    ELSE (IF deletedPatch[i] # <<>> THEN <<counter + i>> ELSE <<>>)
         \o NonEmptyFrom(deletedPatch, patchLen, counter, i + 1)

DeletedInChunkWhitespaceExcluded(content, counter) ==
    NonEmptyFrom(Split(content), ChunkLineCount(content), counter, 1)

RECURSIVE SumLines(_)
\* lines held by the chunks read so far
SumLines(cs) ==
    IF cs = <<>> THEN 0 ELSE Len(FileLines(Head(cs).content)) + SumLines(Tail(cs))

ChunkTexts == [n \in 0..MaxPatchLines |-> Texts(LineTexts, n)]

\* the chunks the patch may hold next
ChunkInputs ==
    [type : ChunkTypes, content : ChunkTexts[MaxPatchLines - SumLines(patchChunks)]]

InitDelCall ==
    /\ delMode \in {"incl", "excl"}
    /\ delPc = "loop"
    /\ patchChunks = <<>>
    /\ lineCounter = 0
    /\ deletedLines = <<>>
    /\ counterTrace = <<>>
    /\ recorded = <<>>
    /\ fileDeletedLinesMap = <<>>

\* one iteration of the chunk loop; appended is what a Delete chunk adds to
\* deletedLines: DeletedInChunkWhitespaceExcluded when excluded, else DeletedInChunk
ChunkStep(chunk, excluded) ==
    LET appended(content, counter) ==
            IF excluded THEN DeletedInChunkWhitespaceExcluded(content, counter)
                        ELSE DeletedInChunk(content, counter)
    IN
    /\ delPc = "loop"
    /\ Len(patchChunks) < MaxChunks
    /\ patchChunks' = Append(patchChunks, chunk)
    /\ IF IndexesLastByte(chunk) /\ chunk.content = <<>>
       THEN /\ delPc' = "panic"
            /\ UNCHANGED <<lineCounter, deletedLines, counterTrace, recorded>>
       ELSE /\ delPc' = "loop"
            /\ lineCounter' =
                  IF chunk.type \in {Equal, Delete}
                  THEN lineCounter + ChunkLineCount(chunk.content)
                  ELSE lineCounter
            /\ deletedLines' =
                  IF chunk.type = Delete
                  THEN deletedLines \o appended(chunk.content, lineCounter)
                  ELSE deletedLines
            /\ counterTrace' = Append(counterTrace, lineCounter')
            /\ recorded' = Append(recorded,
                  IF chunk.type = Delete THEN appended(chunk.content, lineCounter) ELSE <<>>)
    /\ UNCHANGED <<delMode, fileDeletedLinesMap>>
    /\ UNCHANGED otherThanDel

\* DeletedLineNumbers, lines 260-282
DeletedLineNumbersStep ==
    /\ delMode = "incl"
    /\ delPc = "loop"
    /\ \E chunk \in ChunkInputs : ChunkStep(chunk, FALSE)

\* DeletedLineNumbersWhitespaceExcluded, lines 302-325
DeletedLineNumbersWhitespaceExcludedStep ==
    /\ delMode = "excl"
    /\ delPc = "loop"
    /\ \E chunk \in ChunkInputs : ChunkStep(chunk, TRUE)

\* lines 283-291 and 326-334: the file's entry is stored and the map returned
DeletedLineNumbersReturn ==
    /\ delPc = "loop"
    /\ delPc' = "done"
    /\ fileDeletedLinesMap' = deletedLines
    /\ UNCHANGED <<delMode, patchChunks, lineCounter, deletedLines, counterTrace, recorded>>
    /\ UNCHANGED otherThanDel

NextDel ==
    \/ DeletedLineNumbersStep
    \/ DeletedLineNumbersWhitespaceExcludedStep
    \/ DeletedLineNumbersReturn

InitDel == InitDelCall /\ RevIdle /\ MetIdle /\ AggrIdle

SpecDel == InitDel /\ [][NextDel]_vars

\* ---- what the patch says about the parent's file ----
RECURSIVE BeforeContent(_)
\* the parent tree's content of the file: its Equal and Delete chunks in order
BeforeContent(cs) ==
    IF cs = <<>> THEN <<>>
    ELSE (IF Head(cs).type \in {Equal, Delete} THEN Head(cs).content ELSE <<>>)
         \o BeforeContent(Tail(cs))

OnBeforeSide(c) == c.type \in {Equal, Delete}
OnAfterSide(c) == c.type \in {Equal, Add}

\* the chunks partition the two files into runs of whole lines: no chunk is
\* empty, and a chunk lacking the final newline is the last one of its file(s)
PartitionsFile(cs) ==
    \A i \in DOMAIN cs :
        /\ cs[i].content # <<>>
        /\ ~EndsWithNewline(cs[i].content) =>
              \A j \in DOMAIN cs : j > i =>
                  /\ ~(OnBeforeSide(cs[i]) /\ OnBeforeSide(cs[j]))
                  /\ ~(OnAfterSide(cs[i]) /\ OnAfterSide(cs[j]))

StrictlyIncreasing(s) == \A i, j \in DOMAIN s : i < j => s[i] < s[j]

CounterBefore(i) == IF i = 1 THEN 0 ELSE counterTrace[i - 1]

\* ---- C4 ----
\* C4: when the chunks partition the file, the numbers a Delete chunk records
\* are strictly increasing, and every recorded number (also in the stored map
\* entry) is at least 1 and at most the parent file's line count.
C4_DeletedLinesInRange ==
    PartitionsFile(patchChunks) =>
        /\ \A i \in DOMAIN recorded : StrictlyIncreasing(recorded[i])
        /\ \A n \in Range(deletedLines) \cup Range(fileDeletedLinesMap) :
              /\ n >= 1
              /\ n <= FileLOCFromTree(TRUE, BeforeContent(patchChunks))

\* an Equal chunk, then a Delete chunk of two lines reaching the file's last line
C4_Witness ==
    /\ PartitionsFile(patchChunks)
    /\ delPc = "done"
    /\ Len(patchChunks) = 2
    /\ patchChunks[1].type = Equal
    /\ patchChunks[2].type = Delete
    /\ Len(recorded[2]) = 2
    /\ fileDeletedLinesMap = <<2, 3>>
    /\ FileLOCFromTree(TRUE, BeforeContent(patchChunks)) = 3

\* ---- C9 ----
\* C9: in whitespace-exclusive mode a Delete chunk records exactly the numbers
\* of its lines that are non-empty after trimming whitespace, and the counter
\* advances by the chunk's full line count.
C9_BlankLinesExcluded ==
    delMode = "excl" =>
        \A i \in DOMAIN recorded :
            (patchChunks[i].type = Delete) =>
                LET ls == FileLines(patchChunks[i].content)
                IN /\ Range(recorded[i]) =
                        {CounterBefore(i) + k : k \in {m \in DOMAIN ls : TrimSpace(ls[m]) # <<>>}}
                   /\ counterTrace[i] = CounterBefore(i) + Len(ls)

\* ---- C10 ----
\* C10: an Equal or Delete chunk with empty content counts as zero lines: it
\* records nothing, leaves the counter as it was, and the loop goes on without
\* failing.
C10_EmptyChunkIsZeroLines ==
    \A i \in DOMAIN patchChunks :
        (patchChunks[i].type \in {Equal, Delete} /\ patchChunks[i].content = <<>>) =>
            /\ delPc # "panic"
            /\ i <= Len(recorded)
            /\ recorded[i] = <<>>
            /\ counterTrace[i] = CounterBefore(i)

\* =========================================================================
\*  CalculateDiffMetricsWithWhitespace, CalculateDiffMetricsWhitespaceExcluded
\* =========================================================================
\* The commit changes one file (patchFile) by an edit script; a second file is
\* absent, unchanged or added with one line.
PathA == <<"a">>
PathAB == <<"a", "b">>
Paths == {PathA, PathAB}
OtherFile == IF patchFile = PathA THEN PathAB ELSE PathA
OtherContent == <<"x", NL>>

\* line texts of the changed file; one of them begins with a diff marker
MetricLineTexts == LineTexts \cup {<<"-", "x">>}
MetricTexts == [n \in 0..MaxPatchLines |-> Texts(MetricLineTexts, n)]

RECURSIVE AfterContent(_)
\* the commit's content of the file: its Equal and Add chunks in order
AfterContent(cs) ==
    IF cs = <<>> THEN <<>>
    ELSE (IF Head(cs).type \in {Equal, Add} THEN Head(cs).content ELSE <<>>)
         \o AfterContent(Tail(cs))

\* parentTree and tree of CommitDiff (lines 238-242), as path -> file
ParentTreeFile(path) ==
    IF path = patchFile
    THEN [present |-> fromPresent, content |-> BeforeContent(mChunks)]
    ELSE [present |-> otherState = "unchanged", content |-> OtherContent]

TreeFile(path) ==
    IF path = patchFile
    THEN [present |-> toPresent, content |-> AfterContent(mChunks)]
    ELSE [present |-> otherState \in {"unchanged", "added"}, content |-> OtherContent]

\* changes.Patch() (lines 243, 461, 495): the file patches, in path order
OtherPatch ==
    [path |-> OtherFile, from |-> FALSE, to |-> TRUE,
     chunks |-> <<[type |-> Add, content |-> OtherContent]>>]

ChangedPatch ==
    [path |-> patchFile, from |-> fromPresent, to |-> toPresent, chunks |-> mChunks]

FilePatches ==
    IF otherState # "added" THEN <<ChangedPatch>>
    ELSE IF patchFile = PathA THEN <<ChangedPatch, OtherPatch>>
    ELSE <<OtherPatch, ChangedPatch>>

\* ---- patch.Stats() of go-git (line 464) ----
RECURSIVE CountNL(_)
\* strings.Count(s, "\n")
CountNL(s) ==
    IF s = <<>> THEN 0 ELSE (IF Head(s) = NL THEN 1 ELSE 0) + CountNL(Tail(s))

\* lines a chunk adds to a stat: its newlines, and one more for an unterminated
\* last line (releases that omit the latter count fewer, never more)
StatLines(content) ==
    IF content = <<>> THEN 0
    ELSE CountNL(content) + (IF EndsWithNewline(content) THEN 0 ELSE 1)

RECURSIVE SumOfType(_, _)
SumOfType(cs, t) ==
    IF cs = <<>> THEN 0
    ELSE (IF Head(cs).type = t THEN StatLines(Head(cs).content) ELSE 0)
         + SumOfType(Tail(cs), t)

\* a FileStat per file patch that has chunks
Stats ==
    LET fps == FilePatches
    IN [i \in {j \in DOMAIN fps : fps[j].chunks # <<>>} |->
          [Name |-> fps[i].path,
           Addition |-> SumOfType(fps[i].chunks, Add),
           Deletion |-> SumOfType(fps[i].chunks, Delete)]]

StatNames == {Stats[i].Name : i \in DOMAIN Stats}

\* lines 468-473: the stat named filePath, zeros when there is none
StatFor(filePath) ==
    IF filePath \in StatNames
    THEN LET i == CHOOSE j \in DOMAIN Stats : Stats[j].Name = filePath
         IN [Insertions |-> Stats[i].Addition, Deletions |-> Stats[i].Deletion]
    ELSE [Insertions |-> 0, Deletions |-> 0]

\* ---- patch.String() of go-git (line 497): the unified diff text ----
\* The fixed words of the format are single symbols; "+++" and "---" are spelt
\* out. Mode and index lines and the ranges of "@@" lines hold none of the
\* markers the code splits on and are left out. Every Equal line is printed:
\* with at most MaxPatchLines lines none is further than the 3 context lines
\* from a change.
DiffGit == <<"diff --git">>
DiffGitA == <<"diff --git", " a/">>
Plus3 == <<"+", "+", "+">>
Minus3 == <<"-", "-", "-">>
DevNull == <<"/dev/null">>
NoNewlineMark == <<"\\ No newline at end of file">>

Header(fp) ==
    DiffGitA \o fp.path \o <<" b/">> \o fp.path \o <<NL>>
    \o Minus3 \o <<" ">> \o (IF fp.from THEN <<"a/">> \o fp.path ELSE DevNull) \o <<NL>>
    \o Plus3 \o <<" ">> \o (IF fp.to THEN <<"b/">> \o fp.path ELSE DevNull) \o <<NL>>

OpPrefix(t) == IF t = Add THEN <<"+">> ELSE IF t = Delete THEN <<"-">> ELSE <<" ">>

\* the printed lines of one chunk
ChunkText(chunk) ==
    LET ls == FileLines(chunk.content)
    IN Concat([i \in DOMAIN ls |->
                 OpPrefix(chunk.type) \o ls[i] \o <<NL>>
                 \o (IF i = Len(ls) /\ ~EndsWithNewline(chunk.content)
                     THEN NoNewlineMark \o <<NL>> ELSE <<>>)])

FilePatchText(fp) ==
    Header(fp)
    \o (IF fp.chunks = <<>> THEN <<>>
        ELSE <<"@@", NL>> \o Concat([i \in DOMAIN fp.chunks |-> ChunkText(fp.chunks[i])]))

PatchString == Concat([i \in DOMAIN FilePatches |-> FilePatchText(FilePatches[i])])

\* ---- line counts ----
RECURSIVE CountNonEmpty(_)
CountNonEmpty(ls) ==
    IF ls = <<>> THEN 0 ELSE (IF Head(ls) # <<>> THEN 1 ELSE 0) + CountNonEmpty(Tail(ls))

\* FileLOCFromTreeWhitespaceExcluded, lines 155-169
FileLOCFromTreeWhitespaceExcluded(present, content) ==
    IF present THEN CountNonEmpty(FileLines(content)) ELSE 0

RECURSIVE CountMarked(_, _)
\* lines 508-517: the lines that, trimmed, begin with the marker and are more
\* than the marker alone
CountMarked(ls, marker) ==
    IF ls = <<>> THEN 0
    ELSE (IF HasPrefix(TrimSpace(Head(ls)), <<marker>>) /\ TrimSpace(Head(ls)) # <<marker>>
          THEN 1 ELSE 0)
         + CountMarked(Tail(ls), marker)

\* lines 478-484 and 525-531
WithFlags(m) ==
    [m EXCEPT !.NewFile = (m.LinesBefore = 0 /\ m.LinesAfter # 0),
              !.DeleteFile = (m.LinesBefore # 0 /\ m.LinesAfter = 0)]

NewMetrics(filePath) ==
    [File |-> filePath, Insertions |-> 0, Deletions |-> 0, LinesBefore |-> 0,
     LinesAfter |-> 0, NewFile |-> FALSE, DeleteFile |-> FALSE]

\* CalculateDiffMetricsWithWhitespace, lines 456-488
MetricsWithWhitespace(filePath) ==
    WithFlags([NewMetrics(filePath) EXCEPT
        !.Insertions = StatFor(filePath).Insertions,
        !.Deletions = StatFor(filePath).Deletions,
        !.LinesBefore = FileLOCFromTree(ParentTreeFile(filePath).present,
                                        ParentTreeFile(filePath).content),
        !.LinesAfter = FileLOCFromTree(TreeFile(filePath).present,
                                       TreeFile(filePath).content)])

\* lines 497-503
FileDiffTexts(filePath) == SplitOn(PatchString, DiffGitA \o filePath)

AfterPlus3(filePath) == SplitOn(FileDiffTexts(filePath)[2], Plus3)

FileDiffLines(filePath) == Split(SplitOn(AfterPlus3(filePath)[2], DiffGit)[1])

\* CalculateDiffMetricsWhitespaceExcluded, lines 505-533
MetricsWhitespaceExcluded(filePath) ==
    WithFlags([NewMetrics(filePath) EXCEPT
        !.Insertions = CountMarked(FileDiffLines(filePath), "+"),
        !.Deletions = CountMarked(FileDiffLines(filePath), "-"),
        !.LinesBefore = FileLOCFromTreeWhitespaceExcluded(ParentTreeFile(filePath).present,
                                                         ParentTreeFile(filePath).content),
        !.LinesAfter = FileLOCFromTreeWhitespaceExcluded(TreeFile(filePath).present,
                                                        TreeFile(filePath).content)])

InitMetCall ==
    /\ patchFile \in Paths
    /\ fromPresent \in BOOLEAN
    /\ toPresent \in BOOLEAN
    /\ fromPresent \/ toPresent
    /\ otherState \in {"absent", "unchanged", "added"}
    /\ mChunks = <<>>
    /\ mPc = "diff"
    /\ queryPath = <<>>
    /\ mWith = <<>>
    /\ mWithErr = FALSE
    /\ mExcl = <<>>
    /\ mExclErr = FALSE

\* the chunk types a file present on the given sides can have
TypeAllowed(t) ==
    /\ t \in {Equal, Delete} => fromPresent
    /\ t \in {Equal, Add} => toPresent

\* parentTree.Diff(tree) and Patch(), line 243: the backend's line diff yields
\* the next chunk; chunks are non-empty runs of whole lines and neighbours
\* differ in type
DiffChunk ==
    /\ mPc = "diff"
    /\ Len(mChunks) < MaxChunks
    /\ \E t \in ChunkTypes, c \in MetricTexts[MaxPatchLines - SumLines(mChunks)] :
          /\ TypeAllowed(t)
          /\ c # <<>>
          /\ mChunks # <<>> => mChunks[Len(mChunks)].type # t
          /\ PartitionsFile(Append(mChunks, [type |-> t, content |-> c]))
          /\ mChunks' = Append(mChunks, [type |-> t, content |-> c])
    /\ UNCHANGED <<patchFile, fromPresent, toPresent, otherState, mPc, queryPath, mWith,
                   mWithErr, mExcl, mExclErr>>
    /\ UNCHANGED otherThanMet

\* the file patch is one a diff of two trees yields: something changed
PatchComplete ==
    \/ \E i \in DOMAIN mChunks : mChunks[i].type # Equal
    \/ mChunks = <<>> /\ fromPresent # toPresent

\* CalculateDiffMetricsWithWhitespace(repo, filePath), lines 456-488
CalculateDiffMetricsWithWhitespace(filePath) ==
    /\ mPc = "diff"
    /\ PatchComplete
    /\ queryPath' = filePath
    /\ mWith' = MetricsWithWhitespace(filePath)
    /\ mWithErr' = FALSE
    /\ mPc' = "with"
    /\ UNCHANGED <<patchFile, fromPresent, toPresent, otherState, mChunks, mExcl, mExclErr>>
    /\ UNCHANGED otherThanMet

\* CalculateDiffMetricsWhitespaceExcluded(repo, filePath), lines 490-534, for
\* the same commit and path
CalculateDiffMetricsWhitespaceExcluded ==
    /\ mPc = "with"
    /\ IF Len(FileDiffTexts(queryPath)) < 2
       THEN /\ mExclErr' = TRUE
            /\ mExcl' = <<>>
            /\ mPc' = "done"
       ELSE IF Len(AfterPlus3(queryPath)) < 2
       THEN /\ mPc' = "panic"
            /\ UNCHANGED <<mExcl, mExclErr>>
       ELSE /\ mExclErr' = FALSE
            /\ mExcl' = MetricsWhitespaceExcluded(queryPath)
            /\ mPc' = "done"
    /\ UNCHANGED <<patchFile, fromPresent, toPresent, otherState, mChunks, queryPath,
                   mWith, mWithErr>>
    /\ UNCHANGED otherThanMet

NextMet ==
    \/ DiffChunk
    \/ \E filePath \in Paths : CalculateDiffMetricsWithWhitespace(filePath)
    \/ CalculateDiffMetricsWhitespaceExcluded

InitMet == InitMetCall /\ RevIdle /\ DelIdle /\ AggrIdle

SpecMetrics == InitMet /\ [][NextMet]_vars

PatchPaths == {FilePatches[i].path : i \in DOMAIN FilePatches}

\* ---- C2 ----
\* C2: for a path found in the commit's patch, each whitespace-excluded count
\* is at most the corresponding count with whitespace.
C2_ExcludedAtMostIncluded ==
    (mPc = "done" /\ ~mExclErr /\ queryPath \in PatchPaths) =>
        /\ mExcl.Insertions <= mWith.Insertions
        /\ mExcl.Deletions <= mWith.Deletions
        /\ mExcl.LinesBefore <= mWith.LinesBefore
        /\ mExcl.LinesAfter <= mWith.LinesAfter

\* ---- C3 ----
\* C3: NewFile holds exactly when the parent's tree lacks the file and the
\* commit's tree has it, DeleteFile exactly when the parent's tree has it and
\* the commit's tree lacks it, for the metrics of either function.
FlagsMatchTrees(m) ==
    /\ m.NewFile = (~ParentTreeFile(m.File).present /\ TreeFile(m.File).present)
    /\ m.DeleteFile = (ParentTreeFile(m.File).present /\ ~TreeFile(m.File).present)

C3_FlagsMatchTrees ==
    /\ mPc \in {"with", "done"} => FlagsMatchTrees(mWith)
    /\ (mPc = "done" /\ ~mExclErr) => FlagsMatchTrees(mExcl)

\* ---- C8 ----
\* C8: CalculateDiffMetricsWithWhitespace fails with an error when the path is
\* not named in the patch's per-file stats.
C8_MissingStatIsError ==
    (mPc \in {"with", "done"} /\ queryPath \notin StatNames) => mWithErr

\* =========================================================================
\*  AggrDiffMetricsWithWhitespace, setFilesCounts and their goroutines
\* =========================================================================
FileNames == 1..NumFiles
LineCounts == {0, 2}
StatsInputs == {<<>>, <<[Addition |-> 1, Deletion |-> 0], [Addition |-> 2, Deletion |-> 1]>>}

Goroutines == {"locBefore", "locAfter", "newFiles", "deletedFiles"}

\* a tree entry: whether the path is a file of the tree, and its line count
TreeEntries == {[present |-> FALSE, lines |-> 0]} \cup [present : {TRUE}, lines : LineCounts]

FilesOf(t) == {f \in FileNames : t[f].present}

RECURSIVE SumAdditions(_)
SumAdditions(st) == IF st = <<>> THEN 0 ELSE Head(st).Addition + SumAdditions(Tail(st))

RECURSIVE SumDeletions(_)
SumDeletions(st) == IF st = <<>> THEN 0 ELSE Head(st).Deletion + SumDeletions(Tail(st))

RECURSIVE LocOfFiles(_, _)
\* lines 144-149: the line counts of the files, added up in enumeration order
LocOfFiles(t, files) ==
    IF files = <<>> THEN 0 ELSE t[Head(files)].lines + LocOfFiles(t, Tail(files))

RECURSIVE CountMissingFrom(_, _)
\* the elements of list that are not keys of the map built from other
CountMissingFrom(list, other) ==
    IF list = <<>> THEN 0
    ELSE (IF Head(list) \notin Range(other) THEN 1 ELSE 0) + CountMissingFrom(Tail(list), other)

\* getNewFilesCount, lines 601-615
NewFilesCount_Swapped(before, after) == CountMissingFrom(before, after)

NewFilesCount(before, after) == CountMissingFrom(after, before)

\* getDeletedFilesCount, lines 585-599
DeletedFilesCount(before, after) == CountMissingFrom(before, after)

InitAggrCall ==
    /\ aggrParentTree \in [FileNames -> TreeEntries]
    /\ aggrTree \in [FileNames -> TreeEntries]
    /\ diffStats \in StatsInputs
    /\ mainPc = "start"
    /\ gPc = [g \in Goroutines |-> "off"]
    /\ gVal = [g \in Goroutines |-> [loc |-> 0, files |-> <<>>, count |-> 0]]
    /\ delivered = [g \in Goroutines |-> 0]
    /\ beforeFiles = <<>>
    /\ afterFiles = <<>>
    /\ diffMetrics = [Insertions |-> 0, Deletions |-> 0, LinesBefore |-> 0, LinesAfter |-> 0,
                      FilesCount |-> 0, NewFiles |-> 0, DeletedFiles |-> 0]

\* lines 540-563: the stats are summed and the two enumerations are started
AggrStart ==
    /\ mainPc = "start"
    /\ diffMetrics' = [diffMetrics EXCEPT !.Insertions = SumAdditions(diffStats),
                                          !.Deletions = SumDeletions(diffStats)]
    /\ gPc' = [gPc EXCEPT !["locBefore"] = "run", !["locAfter"] = "run"]
    /\ mainPc' = "recvBefore"
    /\ UNCHANGED <<aggrParentTree, aggrTree, diffStats, gVal, delivered, beforeFiles, afterFiles>>
    /\ UNCHANGED otherThanAggr

\* LOCFilesFromTree, lines 141-150: the tree's files are walked in some order,
\* then the goroutine stands at its send on the unbuffered channel
LOCFilesFromTree(g, t) ==
    /\ gPc[g] = "run"
    /\ \E files \in Enumerations(FilesOf(t)) :
          gVal' = [gVal EXCEPT ![g] = [loc |-> LocOfFiles(t, files), files |-> files,
                                       count |-> 0]]
    /\ gPc' = [gPc EXCEPT ![g] = "send"]
    /\ UNCHANGED <<aggrParentTree, aggrTree, diffStats, mainPc, delivered, beforeFiles,
                   afterFiles, diffMetrics>>
    /\ UNCHANGED otherThanAggr

\* a receive of main from g's channel meets g's send: both move on
Receive(at, g, next) ==
    /\ mainPc = at
    /\ gPc[g] = "send"
    /\ gPc' = [gPc EXCEPT ![g] = "done"]
    /\ delivered' = [delivered EXCEPT ![g] = @ + 1]
    /\ mainPc' = next

\* line 564
RecvBefore ==
    /\ Receive("recvBefore", "locBefore", "recvAfter")
    /\ diffMetrics' = [diffMetrics EXCEPT !.LinesBefore = gVal["locBefore"].loc]
    /\ beforeFiles' = gVal["locBefore"].files
    /\ UNCHANGED <<aggrParentTree, aggrTree, diffStats, gVal, afterFiles>>
    /\ UNCHANGED otherThanAggr

\* line 565
RecvAfter ==
    /\ Receive("recvAfter", "locAfter", "setFilesCounts")
    /\ diffMetrics' = [diffMetrics EXCEPT !.LinesAfter = gVal["locAfter"].loc]
    /\ afterFiles' = gVal["locAfter"].files
    /\ UNCHANGED <<aggrParentTree, aggrTree, diffStats, gVal, beforeFiles>>
    /\ UNCHANGED otherThanAggr

\* setFilesCounts, lines 573-579
SetFilesCountsStart ==
    /\ mainPc = "setFilesCounts"
    /\ diffMetrics' = [diffMetrics EXCEPT !.FilesCount = Len(afterFiles)]
    /\ gPc' = [gPc EXCEPT !["newFiles"] = "run", !["deletedFiles"] = "run"]
    /\ mainPc' = "recvNewFiles"
    /\ UNCHANGED <<aggrParentTree, aggrTree, diffStats, gVal, delivered, beforeFiles, afterFiles>>
    /\ UNCHANGED otherThanAggr

\* a counting goroutine computes its count and stands at its send
CountRun(g, count) ==
    /\ gPc[g] = "run"
    /\ gVal' = [gVal EXCEPT ![g].count = count]
    /\ gPc' = [gPc EXCEPT ![g] = "send"]
    /\ UNCHANGED <<aggrParentTree, aggrTree, diffStats, mainPc, delivered, beforeFiles,
                   afterFiles, diffMetrics>>
    /\ UNCHANGED otherThanAggr

\* getNewFilesCount, lines 601-615
GetNewFilesCount == CountRun("newFiles", NewFilesCount(beforeFiles, afterFiles))

\* getDeletedFilesCount, lines 585-599
GetDeletedFilesCount == CountRun("deletedFiles", DeletedFilesCount(beforeFiles, afterFiles))

\* line 581
RecvNewFiles ==
    /\ Receive("recvNewFiles", "newFiles", "recvDeletedFiles")
    /\ diffMetrics' = [diffMetrics EXCEPT !.NewFiles = gVal["newFiles"].count]
    /\ UNCHANGED <<aggrParentTree, aggrTree, diffStats, gVal, beforeFiles, afterFiles>>
    /\ UNCHANGED otherThanAggr

\* a main that returns without the last receive
RecvDeletedFiles_NoWait ==
    /\ mainPc = "recvDeletedFiles"
    /\ mainPc' = "returned"
    /\ UNCHANGED <<aggrParentTree, aggrTree, diffStats, gPc, gVal, delivered, beforeFiles,
                   afterFiles, diffMetrics>>
    /\ UNCHANGED otherThanAggr

\* lines 582-583 and 568: the last receive, then the metrics are returned
RecvDeletedFiles ==
    /\ Receive("recvDeletedFiles", "deletedFiles", "returned")
    /\ diffMetrics' = [diffMetrics EXCEPT !.DeletedFiles = gVal["deletedFiles"].count]
    /\ UNCHANGED <<aggrParentTree, aggrTree, diffStats, gVal, beforeFiles, afterFiles>>
    /\ UNCHANGED otherThanAggr

NextAggr ==
    \/ AggrStart
    \/ LOCFilesFromTree("locBefore", aggrParentTree)
    \/ LOCFilesFromTree("locAfter", aggrTree)
    \/ RecvBefore
    \/ RecvAfter
    \/ SetFilesCountsStart
    \/ GetNewFilesCount
    \/ GetDeletedFilesCount
    \/ RecvNewFiles
    \/ RecvDeletedFiles

InitAggr == InitAggrCall /\ RevIdle /\ DelIdle /\ MetIdle

\* a goroutine that can run is run in the end, and so is main
SpecAggr == InitAggr /\ [][NextAggr]_vars /\ WF_vars(NextAggr)

\* ---- C5 ----
\* C5: whatever the order in which the trees' files were enumerated, NewFiles
\* is the number of files of the commit's tree missing from the parent's,
\* DeletedFiles the number of the parent's files missing from the commit's
\* tree, and FilesCount the number of files of the commit's tree.
C5_FileCountsAreSetDifferences ==
    mainPc = "returned" =>
        /\ diffMetrics.NewFiles = Cardinality(FilesOf(aggrTree) \ FilesOf(aggrParentTree))
        /\ diffMetrics.DeletedFiles = Cardinality(FilesOf(aggrParentTree) \ FilesOf(aggrTree))
        /\ diffMetrics.FilesCount = Cardinality(FilesOf(aggrTree))

\* the call has returned for a commit that adds one file and deletes another
C5_Witness ==
    /\ mainPc = "returned"
    /\ FilesOf(aggrParentTree) = {1}
    /\ FilesOf(aggrTree) = {2}
    /\ diffMetrics.NewFiles = 1
    /\ diffMetrics.DeletedFiles = 1
    /\ diffMetrics.FilesCount = 1

\* ---- C6 ----
\* C6: under every interleaving the call returns, and when it has returned
\* each of the four tasks has delivered its result exactly once and none is
\* left at its send.
C6_JoinsAllTasks ==
    /\ <>(mainPc = "returned")
    /\ [](mainPc = "returned" =>
            \A g \in Goroutines : delivered[g] = 1 /\ gPc[g] = "done")

C6_Witness ==
    /\ mainPc = "returned"
    /\ \A g \in Goroutines : delivered[g] = 1 /\ gPc[g] = "done"
    /\ Len(beforeFiles) = 2
    /\ Len(afterFiles) = 2

====
